---- MODULE Spec2Model ----
(***************************************************************************)
(* QueBar (src/src/main.rs): a workspace event client, a repaint ticker,   *)
(* a battery sampler and the display state aggregator MyTaskbar::update.   *)
(*                                                                         *)
(* Abstractions:                                                           *)
(*  - a text frame is represented by the JSON tree it parses to (or by the *)
(*    marker NotJson when it is not JSON); JSON values are tagged records; *)
(*  - chrono::Local is taken to be UTC;                                    *)
(*  - the battery charge is given in half percents.                        *)
(***************************************************************************)
EXTENDS Integers, Sequences, FiniteSets, TLC

VARIABLES
  wsPc,             \* workspace client: position in the closure of lines 57-95
  sent,             \* commands passed to socket.send on the most recent connection
  wsMsg,            \* the message last returned by socket.read on this connection
  readsOnConn,      \* messages read on the most recent connection
  eventsOnConn,     \* of these, envelopes routed to the event branch
  retries,          \* connect attempts that failed since the client was last connected
  sendFailed,       \* a socket.send since the last read or connect returned Err
  raises,           \* stores of true into repaint_signal so far (history)
  raisesSincePoll,  \* of these, the stores since the last swap (history)
  wsChan,           \* ws_tx -> ws_rx
  wsLastPub,        \* last value passed to ws_tx.send (history)
  repaint_signal,   \* the shared AtomicBool
  tkPc,             \* ticker: position in the closure of lines 97-104
  tkObserved,       \* ticker: value returned by the swap of this cycle
  tkSeen,           \* the snapshot last published when this cycle's swap returned true (history)
  polls,            \* swaps so far (history)
  redraws,          \* ticker calls of request_repaint so far (history)
  redrawFor,        \* tkSeen of a ticker request_repaint not yet served by a frame (history)
  batPc,            \* battery sampler: position in the closure of lines 106-120
  manager,          \* battery sampler: battery::Manager::new().ok()
  batChan,          \* bat_tx -> bat_rx
  batLastPub,       \* last value passed to bat_tx.send (history)
  repaintPending,   \* host: a request_repaint() not yet served by a frame
  wakeAfter,        \* host: seconds passed to the last request_repaint_after
  rxAlive,          \* host: MyTaskbar, the owner of ws_rx and bat_rx, is alive
  txFailed,         \* the producers whose last channel send returned Err
  updPc,            \* MyTaskbar::update: position in the frame
  frameFor,         \* redrawFor at the begin of the frame running (history)
  repaint_needed,   \* MyTaskbar::update: the local of line 151
  wsBacklog,        \* values queued on wsChan at frame begin, not yet received
  batBacklog,       \* values queued on batChan at frame begin, not yet received
  workspaces,       \* MyTaskbar.workspaces
  battery_level,    \* MyTaskbar.battery_level
  time,             \* MyTaskbar.time
  date              \* MyTaskbar.date

wsVars  == <<wsPc, sent, wsMsg, readsOnConn, eventsOnConn, retries, sendFailed,
             raises>>
tkVars  == <<tkPc, tkObserved, tkSeen, polls, redraws>>
batVars == <<batPc, manager>>
updVars == <<updPc, repaint_needed, wsBacklog, batBacklog, workspaces,
             battery_level, time, date, wakeAfter, rxAlive, frameFor>>
vars == <<wsPc, sent, wsMsg, readsOnConn, eventsOnConn, wsChan,
          wsLastPub, repaint_signal, tkPc, tkObserved, batPc, manager,
          batChan, batLastPub, repaintPending, wakeAfter, updPc,
          repaint_needed, wsBacklog, batBacklog, workspaces, battery_level,
          time, date, retries, sendFailed, raises, raisesSincePoll, tkSeen,
          polls, redraws, redrawFor, rxAlive, frameFor, txFailed>>

----------------------------------------------------------------------------
(* Bounds *)

MaxReads == 3      \* messages delivered on one connection
MaxChan == 2       \* values queued on one channel
MaxRetries == 2    \* failed connect attempts told apart
MaxCount == 3      \* raises, polls and redraws told apart

\* a counter of the history that stops at cap
CountUpTo(n, cap) == IF n < cap THEN n + 1 ELSE cap

\* an optional snapshot of the history
NoSnapshot == [some |-> FALSE]
SomeSnapshot(snapshot) == [some |-> TRUE, v |-> snapshot]

----------------------------------------------------------------------------
(* JSON values *)

JNull == [t |-> "null"]
JBool(b) == [t |-> "bool", b |-> b]
JNum(n) == [t |-> "num", n |-> n]
JStr(s) == [t |-> "str", s |-> s]
JArr(a) == [t |-> "arr", a |-> a]
JObj(o) == [t |-> "obj", o |-> o]
NotJson == [t |-> "invalid"]

\* the object with the given set of <<key, value>> members
Members(pairs) ==
  [k \in {p[1] : p \in pairs} |-> (CHOOSE p \in pairs : p[1] = k)[2]]

Ok(v) == [ok |-> TRUE, v |-> v]
Err == [ok |-> FALSE]

----------------------------------------------------------------------------
(* Protocol codec *)

\* serde_json::from_str::<GlazeEnvelope>: a map with messageType (a string)
\* and data (any value), unknown keys ignored; or a two element sequence.
ParseEnvelope(j) ==
  IF j.t = "obj"
  THEN IF /\ "messageType" \in DOMAIN j.o
          /\ j.o["messageType"].t = "str"
          /\ "data" \in DOMAIN j.o
       THEN Ok([message_type |-> j.o["messageType"].s, data |-> j.o["data"]])
       ELSE Err
  ELSE IF j.t = "arr"
  THEN IF Len(j.a) = 2 /\ j.a[1].t = "str"
       THEN Ok([message_type |-> j.a[1].s, data |-> j.a[2]])
       ELSE Err
  ELSE Err

\* a bool field with #[serde(default, alias = ...)] read from a map
DecodeFlagNoAlias(o, field, alias) ==
  IF field \in DOMAIN o
  THEN IF o[field].t = "bool" THEN Ok(o[field].b) ELSE Err
  ELSE Ok(FALSE)

DecodeFlag(o, field, alias) ==
  IF field \in DOMAIN o /\ alias \in DOMAIN o
  THEN Err                                          \* duplicate field
  ELSE IF field \in DOMAIN o
  THEN IF o[field].t = "bool" THEN Ok(o[field].b) ELSE Err
  ELSE IF alias \in DOMAIN o
  THEN IF o[alias].t = "bool" THEN Ok(o[alias].b) ELSE Err
  ELSE Ok(FALSE)

\* the same field read from position i of a sequence
DecodeFlagAt(a, i) ==
  IF i <= Len(a)
  THEN IF a[i].t = "bool" THEN Ok(a[i].b) ELSE Err
  ELSE Ok(FALSE)

\* Deserialize for Workspace
DecodeWorkspace(e) ==
  IF e.t = "obj"
  THEN LET f == DecodeFlag(e.o, "focused", "hasFocus")
           v == DecodeFlag(e.o, "visible", "isDisplayed")
       IN IF /\ "name" \in DOMAIN e.o
             /\ e.o["name"].t = "str"
             /\ f.ok
             /\ v.ok
          THEN Ok([name |-> e.o["name"].s, focused |-> f.v, visible |-> v.v])
          ELSE Err
  ELSE IF e.t = "arr"
  THEN LET f == DecodeFlagAt(e.a, 2)
           v == DecodeFlagAt(e.a, 3)
       IN IF /\ Len(e.a) \in 1..3
             /\ e.a[1].t = "str"
             /\ f.ok
             /\ v.ok
          THEN Ok([name |-> e.a[1].s, focused |-> f.v, visible |-> v.v])
          ELSE Err
  ELSE Err

\* Deserialize for Vec<Workspace>
DecodeWorkspaceList(j) ==
  IF j.t = "arr" /\ \A i \in 1..Len(j.a) : DecodeWorkspace(j.a[i]).ok
  THEN Ok([i \in 1..Len(j.a) |-> DecodeWorkspace(j.a[i]).v])
  ELSE Err

\* serde_json::from_value::<WorkspacesData>
DecodeWorkspacesData(data) ==
  IF data.t = "obj"
  THEN IF "workspaces" \in DOMAIN data.o
       THEN DecodeWorkspaceList(data.o["workspaces"])
       ELSE Err
  ELSE IF data.t = "arr"
  THEN IF Len(data.a) = 1 THEN DecodeWorkspaceList(data.a[1]) ELSE Err
  ELSE Err

\* envelope.data.get("subscriptionId").is_some()
HasSubscriptionId(data) == data.t = "obj" /\ "subscriptionId" \in DOMAIN data.o

ResponseTypes == {"client_response", "query_response"}
EventTypesNoSubscription == {"event", "subscribed_event"}
EventTypes == {"event", "subscribed_event", "event_subscription"}

SubWorkspaceActivated == "sub -e workspace_activated"
SubFocusChanged == "sub -e focus_changed"
QueryWorkspaces == "query workspaces"

\* frames returned by socket.read
TextFrame(j) == [frame |-> "text", json |-> j]
BinaryFrame == [frame |-> "binary"]
NoMsg == [frame |-> "none"]

\* where the body of the read loop goes with msg (lines 69-86)
DispatchIgnoresMarker(msg) ==
  IF msg.frame # "text" THEN "read"
  ELSE LET envelope == ParseEnvelope(msg.json)
       IN IF ~envelope.ok THEN "read"
          ELSE IF envelope.v.message_type \in ResponseTypes
          THEN IF DecodeWorkspacesData(envelope.v.data).ok
               THEN "publish"
               ELSE "read"
          ELSE IF envelope.v.message_type \in EventTypes
          THEN "requery"
          ELSE "read"

\* lines 69-86 answering a response it cannot decode with a new query
DispatchRequeriesUndecoded(msg) ==
  IF msg.frame # "text" THEN "read"
  ELSE LET envelope == ParseEnvelope(msg.json)
       IN IF ~envelope.ok THEN "read"
          ELSE IF envelope.v.message_type \in ResponseTypes
          THEN IF HasSubscriptionId(envelope.v.data) THEN "read"
               ELSE IF DecodeWorkspacesData(envelope.v.data).ok
               THEN "publish"
               ELSE "requery"
          ELSE IF envelope.v.message_type \in EventTypes
          THEN "requery"
          ELSE "read"

Dispatch(msg) ==
  IF msg.frame # "text" THEN "read"
  ELSE LET envelope == ParseEnvelope(msg.json)
       IN IF ~envelope.ok THEN "read"
          ELSE IF envelope.v.message_type \in ResponseTypes
          THEN IF HasSubscriptionId(envelope.v.data) THEN "read"
               ELSE IF DecodeWorkspacesData(envelope.v.data).ok
               THEN "publish"
               ELSE "read"
          ELSE IF envelope.v.message_type \in EventTypes
          THEN "requery"
          ELSE "read"

\* d.workspaces of line 76
DecodedWorkspaces(msg) ==
  DecodeWorkspacesData(ParseEnvelope(msg.json).v.data).v

----------------------------------------------------------------------------
(* Messages the window manager may deliver *)

Envelope(type, data) ==
  TextFrame(JObj(Members({<<"messageType", JStr(type)>>, <<"data", data>>})))

WorkspacesPayload(list) == JObj(Members({<<"workspaces", JArr(list)>>}))

\* the two snapshots of the end-to-end example of the specification
ElemA1 == JObj(Members({<<"name", JStr("1")>>, <<"hasFocus", JBool(TRUE)>>}))
ElemB1 == JObj(Members({<<"name", JStr("1")>>, <<"hasFocus", JBool(FALSE)>>}))
ElemB2 == JObj(Members({<<"name", JStr("2")>>, <<"hasFocus", JBool(TRUE)>>,
                        <<"isDisplayed", JBool(TRUE)>>}))
MsgSnapshotA == Envelope("query_response", WorkspacesPayload(<<ElemA1>>))
MsgSnapshotB == Envelope("query_response", WorkspacesPayload(<<ElemB1, ElemB2>>))
MsgAck ==
  Envelope("client_response",
           JObj(Members({<<"subscriptionId", JStr("s")>>})))
MsgEvent == Envelope("event_subscription", JObj(Members({})))
MsgOther == Envelope("other", JNull)

SnapshotA == <<[name |-> "1", focused |-> TRUE, visible |-> FALSE]>>
SnapshotB == <<[name |-> "1", focused |-> FALSE, visible |-> FALSE],
               [name |-> "2", focused |-> TRUE, visible |-> TRUE]>>

MsgFocusEvent == Envelope("event", JObj(Members({})))
MsgSubscribedEvent == Envelope("subscribed_event", JObj(Members({})))

Messages == {MsgSnapshotA, MsgSnapshotB, MsgAck, MsgEvent, BinaryFrame}
ClientMessages ==
  Messages \cup {MsgFocusEvent, MsgSubscribedEvent, MsgOther, TextFrame(NotJson)}

\* a wider universe for the codec
NameMembers ==
  {{}, {<<"name", JStr("1")>>}, {<<"name", JStr("2")>>}, {<<"name", JNum(1)>>}}
FocusMembers ==
  {{}, {<<"hasFocus", JBool(TRUE)>>}, {<<"hasFocus", JBool(FALSE)>>},
   {<<"focused", JBool(TRUE)>>},
   {<<"focused", JBool(TRUE)>>, <<"hasFocus", JBool(TRUE)>>},
   {<<"focused", JStr("yes")>>}}
VisibleMembers ==
  {{}, {<<"isDisplayed", JBool(TRUE)>>}, {<<"visible", JBool(TRUE)>>},
   {<<"visible", JBool(FALSE)>>}, {<<"isDisplayed", JNull>>}}
CodecElems ==
  {JObj(Members(n \cup f \cup v \cup x)) :
     n \in NameMembers, f \in FocusMembers, v \in VisibleMembers,
     x \in {{}, {<<"id", JStr("w")>>}}}
     \cup {JArr(<<JStr("1")>>), JArr(<<JStr("1"), JBool(TRUE)>>), JNull}
CoreElems ==
  {JObj(Members(n \cup f \cup v)) :
     n \in {{<<"name", JStr("1")>>}, {<<"name", JStr("2")>>}},
     f \in {{}, {<<"hasFocus", JBool(TRUE)>>}, {<<"focused", JBool(FALSE)>>}},
     v \in {{}, {<<"isDisplayed", JBool(TRUE)>>}}}
CodecLists ==
  {<<>>} \cup {<<e>> : e \in CodecElems}
         \cup {<<e1, e2>> : e1 \in CoreElems, e2 \in CoreElems}
CodecPayloads ==
  {JObj(Members({<<"workspaces", JArr(l)>>} \cup s)) :
     l \in CodecLists,
     s \in {{}, {<<"subscriptionId", JStr("s")>>}, {<<"subscriptionId", JNull>>}}}
  \cup {JNull, JStr("x"), JObj(Members({})),
        JObj(Members({<<"subscriptionId", JStr("s")>>})),
        JObj(Members({<<"workspaces", JNull>>})),
        JObj(Members({<<"workspaces", JArr(<<ElemA1>>)>>,
                      <<"nested", JObj(Members({<<"subscriptionId", JStr("s")>>}))>>})),
        JArr(<<JArr(<<ElemA1>>)>>)}
CodecTypes == ResponseTypes \cup EventTypes \cup {"other"}
CodecMessages ==
  {Envelope(ty, d) : ty \in CodecTypes, d \in CodecPayloads}
  \cup {TextFrame(JArr(<<JStr(ty), WorkspacesPayload(<<ElemA1>>)>>)) : ty \in CodecTypes}
  \cup {BinaryFrame, TextFrame(NotJson), TextFrame(JNull),
        TextFrame(JObj(Members({<<"messageType", JStr("query_response")>>}))),
        TextFrame(JObj(Members({<<"messageType", JNum(1)>>,
                                <<"data", WorkspacesPayload(<<ElemA1>>)>>})))}

----------------------------------------------------------------------------
(* Initial state: the threads are spawned, MyTaskbar::new has run *)

Init ==
  /\ wsPc = "connect"
  /\ sent = <<>>
  /\ wsMsg = NoMsg
  /\ readsOnConn = 0
  /\ eventsOnConn = 0
  /\ wsChan = <<>>
  /\ wsLastPub = <<>>
  /\ repaint_signal = FALSE
  /\ tkPc = "poll"
  /\ tkObserved = FALSE
  /\ batPc = "init"
  /\ manager = "unset"
  /\ batChan = <<>>
  /\ batLastPub = "100%"
  /\ repaintPending = FALSE
  /\ wakeAfter = 0
  /\ updPc = "idle"
  /\ repaint_needed = FALSE
  /\ wsBacklog = 0
  /\ batBacklog = 0
  /\ workspaces = <<>>
  /\ battery_level = "100%"
  /\ time = ""
  /\ date = ""
  /\ retries = 0
  /\ sendFailed = FALSE
  /\ raises = 0
  /\ raisesSincePoll = 0
  /\ tkSeen = NoSnapshot
  /\ polls = 0
  /\ redraws = 0
  /\ redrawFor = NoSnapshot
  /\ rxAlive = TRUE
  /\ txFailed = {}
  /\ frameFor = NoSnapshot

----------------------------------------------------------------------------
(* Workspace event client (lines 57-95) *)

othersThanWs == <<tkVars, batVars, updVars, batChan, batLastPub, repaintPending,
                  redrawFor>>

\* let _ = socket.send(cmd): the command is handed to the socket and the
\* result, Ok or Err, is dropped
SocketSend(cmd) == sent' = Append(sent, cmd)

\* the command of the send at a position, and the position after it
CommandAt(pc) ==
  CASE pc = "sub1" -> SubWorkspaceActivated
    [] pc = "sub2" -> SubFocusChanged
    [] pc = "query0" -> QueryWorkspaces
    [] pc = "requery" -> QueryWorkspaces
AfterSend(pc) ==
  CASE pc = "sub1" -> "sub2"
    [] pc = "sub2" -> "query0"
    [] pc = "query0" -> "read"
    [] pc = "requery" -> "read"

\* line 60, Ok arm
WsConnectOkNoSubscribe ==
  /\ wsPc = "connect"
  /\ wsPc' = "query0"
  /\ sent' = <<>>
  /\ wsMsg' = NoMsg
  /\ readsOnConn' = 0
  /\ eventsOnConn' = 0
  /\ sendFailed' = FALSE
  /\ UNCHANGED <<txFailed,
                 retries, raises, raisesSincePoll,
                 wsChan, wsLastPub, repaint_signal, othersThanWs>>

WsConnectOk ==
  /\ wsPc = "connect"
  /\ wsPc' = "sub1"
  /\ sent' = <<>>
  /\ wsMsg' = NoMsg
  /\ readsOnConn' = 0
  /\ eventsOnConn' = 0
  /\ sendFailed' = FALSE
  /\ UNCHANGED <<txFailed,
                 retries, raises, raisesSincePoll,
                 wsChan, wsLastPub, repaint_signal, othersThanWs>>

\* line 60, Err arm, with a limit on the attempts
WsConnectErrBounded ==
  /\ wsPc = "connect"
  /\ wsPc' = IF retries < MaxRetries THEN "sleep" ELSE "exit"
  /\ retries' = CountUpTo(retries, MaxRetries)
  /\ UNCHANGED <<txFailed,
                 sendFailed, raises, raisesSincePoll,
                 sent, wsMsg, readsOnConn, eventsOnConn, wsChan,
                 wsLastPub, repaint_signal, othersThanWs>>

\* line 60, Err arm (line 92), up to the sleep
WsConnectErr ==
  /\ wsPc = "connect"
  /\ wsPc' = "sleep"
  /\ retries' = CountUpTo(retries, MaxRetries)
  /\ UNCHANGED <<txFailed,
                 sendFailed, raises, raisesSincePoll,
                 sent, wsMsg, readsOnConn, eventsOnConn, wsChan,
                 wsLastPub, repaint_signal, othersThanWs>>

\* line 92: the sleep of 2 s ends, the outer loop starts over
WsSleep ==
  /\ wsPc = "sleep"
  /\ wsPc' = "connect"
  /\ UNCHANGED <<txFailed,
                 retries, sendFailed, raises, raisesSincePoll,
                 sent, wsMsg, readsOnConn, eventsOnConn, wsChan,
                 wsLastPub, repaint_signal, othersThanWs>>

\* line 62
WsSub1 ==
  /\ wsPc = "sub1"
  /\ SocketSend(SubWorkspaceActivated)
  /\ wsPc' = "sub2"
  /\ UNCHANGED <<txFailed,
                 retries, sendFailed, raises, raisesSincePoll,
                 wsMsg, readsOnConn, eventsOnConn, wsChan, wsLastPub,
                 repaint_signal, othersThanWs>>

\* line 63
WsSub2 ==
  /\ wsPc = "sub2"
  /\ SocketSend(SubFocusChanged)
  /\ wsPc' = "query0"
  /\ UNCHANGED <<txFailed,
                 retries, sendFailed, raises, raisesSincePoll,
                 wsMsg, readsOnConn, eventsOnConn, wsChan, wsLastPub,
                 repaint_signal, othersThanWs>>

\* line 64
WsQuery0 ==
  /\ wsPc = "query0"
  /\ SocketSend(QueryWorkspaces)
  /\ wsPc' = "read"
  /\ UNCHANGED <<txFailed,
                 retries, sendFailed, raises, raisesSincePoll,
                 wsMsg, readsOnConn, eventsOnConn, wsChan, wsLastPub,
                 repaint_signal, othersThanWs>>

\* envelopes of the event classes the client is subscribed to
IsEventEnvelope(msg) ==
  /\ msg.frame = "text"
  /\ ParseEnvelope(msg.json).ok
  /\ ParseEnvelope(msg.json).v.message_type
       \in {"event", "subscribed_event", "event_subscription"}

\* line 67, Ok arm, and the routing of lines 69-86
WsReadOk(msg) ==
  /\ wsPc = "read"
  /\ readsOnConn < MaxReads
  /\ Dispatch(msg) = "publish" => Len(wsChan) < MaxChan
  /\ wsPc' = Dispatch(msg)
  /\ wsMsg' = msg
  /\ sendFailed' = FALSE
  /\ readsOnConn' = readsOnConn + 1
  /\ eventsOnConn' = IF IsEventEnvelope(msg) THEN eventsOnConn + 1
                     ELSE eventsOnConn
  /\ UNCHANGED <<txFailed,
                 retries, raises, raisesSincePoll,
                 sent, wsChan, wsLastPub, repaint_signal,
                 othersThanWs>>

\* line 67, Err arm (line 88): break, the outer loop connects again
WsReadErrThenSleep ==
  /\ wsPc = "read"
  /\ wsPc' = "sleep"
  /\ wsMsg' = NoMsg
  /\ retries' = 0
  /\ sendFailed' = FALSE
  /\ UNCHANGED <<txFailed,
                 raises, raisesSincePoll,
                 sent, readsOnConn, eventsOnConn, wsChan,
                 wsLastPub, repaint_signal, othersThanWs>>

WsReadErr ==
  /\ wsPc = "read"
  /\ wsPc' = "connect"
  /\ wsMsg' = NoMsg
  /\ retries' = 0
  /\ sendFailed' = FALSE
  /\ UNCHANGED <<txFailed,
                 raises, raisesSincePoll,
                 sent, readsOnConn, eventsOnConn, wsChan,
                 wsLastPub, repaint_signal, othersThanWs>>

\* line 77 in the place of line 76
WsPublishSignalsFirst ==
  /\ wsPc = "publish"
  /\ repaint_signal' = TRUE
  /\ raises' = CountUpTo(raises, MaxCount)
  /\ raisesSincePoll' = CountUpTo(raisesSincePoll, MaxCount)
  /\ wsPc' = "signal"
  /\ UNCHANGED <<txFailed, retries, sendFailed, wsChan, wsLastPub,
                 sent, wsMsg, readsOnConn, eventsOnConn, othersThanWs>>

\* line 76 with the result of the send unwrapped
WsPublishUnwrapped ==
  /\ wsPc = "publish"
  /\ wsChan' = IF rxAlive THEN Append(wsChan, DecodedWorkspaces(wsMsg))
               ELSE wsChan
  /\ wsLastPub' = DecodedWorkspaces(wsMsg)
  /\ txFailed' = IF rxAlive THEN txFailed \ {"ws"} ELSE txFailed \cup {"ws"}
  /\ wsPc' = IF rxAlive THEN "signal" ELSE "exit"
  /\ UNCHANGED <<retries, sendFailed, raises, raisesSincePoll,
                 sent, wsMsg, readsOnConn, eventsOnConn,
                 repaint_signal, othersThanWs>>

\* line 76
WsPublish ==
  /\ wsPc = "publish"
  /\ wsChan' = IF rxAlive THEN Append(wsChan, DecodedWorkspaces(wsMsg))
               ELSE wsChan
  /\ wsLastPub' = DecodedWorkspaces(wsMsg)
  /\ txFailed' = IF rxAlive THEN txFailed \ {"ws"} ELSE txFailed \cup {"ws"}
  /\ wsPc' = "signal"
  /\ UNCHANGED <<retries, sendFailed, raises, raisesSincePoll,
                 sent, wsMsg, readsOnConn, eventsOnConn,
                 repaint_signal, othersThanWs>>

\* line 77
WsSignal ==
  /\ wsPc = "signal"
  /\ repaint_signal' = TRUE
  /\ raises' = CountUpTo(raises, MaxCount)
  /\ raisesSincePoll' = CountUpTo(raisesSincePoll, MaxCount)
  /\ wsPc' = "read"
  /\ UNCHANGED <<txFailed,
                 retries, sendFailed,
                 sent, wsMsg, readsOnConn, eventsOnConn, wsChan,
                 wsLastPub, othersThanWs>>

\* lines 62-64 and 81: socket.send returns Err, and the result is dropped
WsSendErrDisconnects ==
  /\ wsPc \in {"sub1", "sub2", "query0", "requery"}
  /\ SocketSend(CommandAt(wsPc))
  /\ sendFailed' = TRUE
  /\ wsPc' = "connect"
  /\ UNCHANGED <<txFailed,
                 retries, raises, raisesSincePoll,
                 wsMsg, readsOnConn, eventsOnConn, wsChan, wsLastPub,
                 repaint_signal, othersThanWs>>

WsSendErr ==
  /\ wsPc \in {"sub1", "sub2", "query0", "requery"}
  /\ SocketSend(CommandAt(wsPc))
  /\ sendFailed' = TRUE
  /\ wsPc' = AfterSend(wsPc)
  /\ UNCHANGED <<txFailed,
                 retries, raises, raisesSincePoll,
                 wsMsg, readsOnConn, eventsOnConn, wsChan, wsLastPub,
                 repaint_signal, othersThanWs>>

\* line 81
WsRequery ==
  /\ wsPc = "requery"
  /\ SocketSend(QueryWorkspaces)
  /\ wsPc' = "read"
  /\ UNCHANGED <<txFailed,
                 retries, sendFailed, raises, raisesSincePoll,
                 wsMsg, readsOnConn, eventsOnConn, wsChan, wsLastPub,
                 repaint_signal, othersThanWs>>

WsDisconnected == wsPc \in {"connect", "sleep"}
WsSubscribed == wsPc \in {"sub1", "sub2", "query0"}
WsStreaming == wsPc \in {"read", "publish", "signal", "requery"}

----------------------------------------------------------------------------
(* Repaint ticker (lines 97-104) *)

othersThanTk == <<wsVars, batVars, updVars, wsChan, wsLastPub, batChan,
                  batLastPub, txFailed>>

\* line 99: repaint_signal.swap(false), one atomic read-modify-write
TkSwapNoClear ==
  /\ tkPc = "poll"
  /\ tkObserved' = repaint_signal
  /\ tkSeen' = IF repaint_signal THEN SomeSnapshot(wsLastPub) ELSE NoSnapshot
  /\ polls' = CountUpTo(polls, MaxCount)
  /\ tkPc' = IF repaint_signal THEN "repaint" ELSE "sleep"
  /\ UNCHANGED <<redraws, redrawFor, raisesSincePoll,
                 repaint_signal, repaintPending, othersThanTk>>

\* lines 99-101 without the test of the value swapped out
TkSwapRedrawsEveryPoll ==
  /\ tkPc = "poll"
  /\ tkObserved' = repaint_signal
  /\ tkSeen' = IF repaint_signal THEN SomeSnapshot(wsLastPub) ELSE NoSnapshot
  /\ polls' = CountUpTo(polls, MaxCount)
  /\ raisesSincePoll' = 0
  /\ repaint_signal' = FALSE
  /\ tkPc' = "repaint"
  /\ UNCHANGED <<redraws, redrawFor, repaintPending, othersThanTk>>

TkSwap ==
  /\ tkPc = "poll"
  /\ tkObserved' = repaint_signal
  /\ tkSeen' = IF repaint_signal THEN SomeSnapshot(wsLastPub) ELSE NoSnapshot
  /\ polls' = CountUpTo(polls, MaxCount)
  /\ raisesSincePoll' = 0
  /\ repaint_signal' = FALSE
  /\ tkPc' = IF repaint_signal THEN "repaint" ELSE "sleep"
  /\ UNCHANGED <<redraws, redrawFor,
                 repaintPending, othersThanTk>>

\* line 100
TkRepaintDropped ==
  /\ tkPc = "repaint"
  /\ tkPc' = "sleep"
  /\ UNCHANGED <<tkSeen, polls, redraws, redrawFor, raisesSincePoll,
                 tkObserved, repaint_signal, repaintPending, othersThanTk>>

TkRepaint ==
  /\ tkPc = "repaint"
  /\ repaintPending' = TRUE
  /\ redraws' = CountUpTo(redraws, MaxCount)
  /\ redrawFor' = tkSeen
  /\ tkPc' = "sleep"
  /\ UNCHANGED <<tkSeen, polls, raisesSincePoll,
                 tkObserved, repaint_signal, othersThanTk>>

\* line 102: the sleep of 100 ms ends
TkSleep ==
  /\ tkPc = "sleep"
  /\ tkPc' = "poll"
  /\ tkObserved' = FALSE
  /\ tkSeen' = NoSnapshot
  /\ UNCHANGED <<polls, redraws, redrawFor, raisesSincePoll,
                 repaint_signal, repaintPending, othersThanTk>>

----------------------------------------------------------------------------
(* Battery sampler (lines 106-120) *)

othersThanBat == <<wsVars, tkVars, updVars, wsChan, wsLastPub, raisesSincePoll,
                   redrawFor>>

\* format!("{:.0}%", pct) for pct = hp / 2: ties go to the even integer
FormatPercent(hp) ==
  LET q == hp \div 2
      n == IF hp % 2 = 0 THEN q ELSE IF q % 2 = 0 THEN q ELSE q + 1
  IN ToString(n) \o "%"

BatteryHalfPercents == {173, 175}

\* line 107
BatInit ==
  /\ batPc = "init"
  /\ \E m \in {"some", "none"} : manager' = m
  /\ batPc' = "poll"
  /\ UNCHANGED <<txFailed,
                 batChan, batLastPub, repaint_signal, repaintPending,
                 othersThanBat>>

\* lines 109-113 without the test of the manager
BatPublishNoManager(hp) ==
  /\ batPc = "poll"
  /\ Len(batChan) < MaxChan
  /\ batChan' = IF rxAlive THEN Append(batChan, FormatPercent(hp))
                ELSE batChan
  /\ batLastPub' = FormatPercent(hp)
  /\ txFailed' = IF rxAlive THEN txFailed \ {"bat"} ELSE txFailed \cup {"bat"}
  /\ batPc' = "wake"
  /\ UNCHANGED <<manager, repaint_signal, repaintPending, othersThanBat>>

\* lines 109-113: a battery is available, its charge is published
BatPublish(hp) ==
  /\ batPc = "poll"
  /\ manager = "some"
  /\ Len(batChan) < MaxChan
  /\ batChan' = IF rxAlive THEN Append(batChan, FormatPercent(hp))
                ELSE batChan
  /\ batLastPub' = FormatPercent(hp)
  /\ txFailed' = IF rxAlive THEN txFailed \ {"bat"} ELSE txFailed \cup {"bat"}
  /\ batPc' = "wake"
  /\ UNCHANGED <<manager, repaint_signal, repaintPending, othersThanBat>>

\* lines 109-111 going on to line 114
BatSkipWakes ==
  /\ batPc = "poll"
  /\ batPc' = "wake"
  /\ UNCHANGED <<txFailed,
                 manager, batChan, batLastPub, repaint_signal, repaintPending,
                 othersThanBat>>

\* lines 109-111: no manager, batteries() fails or there is no first battery
BatSkip ==
  /\ batPc = "poll"
  /\ batPc' = "sleep"
  /\ UNCHANGED <<txFailed,
                 manager, batChan, batLastPub, repaint_signal, repaintPending,
                 othersThanBat>>

\* line 114: ctx_bat.request_repaint()
BatWakeViaSignal ==
  /\ batPc = "wake"
  /\ repaint_signal' = TRUE
  /\ batPc' = "sleep"
  /\ UNCHANGED <<txFailed,
                 manager, batChan, batLastPub, repaintPending, othersThanBat>>

BatWake ==
  /\ batPc = "wake"
  /\ repaintPending' = TRUE
  /\ batPc' = "sleep"
  /\ UNCHANGED <<txFailed,
                 manager, batChan, batLastPub, repaint_signal, othersThanBat>>

\* line 118: the sleep of 60 s ends
BatSleep ==
  /\ batPc = "sleep"
  /\ batPc' = "poll"
  /\ UNCHANGED <<txFailed,
                 manager, batChan, batLastPub, repaint_signal, repaintPending,
                 othersThanBat>>

----------------------------------------------------------------------------
(* Display state aggregator: MyTaskbar::update (lines 150-221) *)

othersThanUpd == <<wsVars, tkVars, batVars, wsLastPub, batLastPub,
                   repaint_signal, raisesSincePoll, txFailed>>

Pad2(n) == IF n < 10 THEN "0" \o ToString(n) ELSE ToString(n)

\* now.format("%H:%M") for the unix time t
FormatTime(t) == Pad2((t \div 3600) % 24) \o ":" \o Pad2((t \div 60) % 60)

\* now.format("%m/%d/%Y") for the unix time t (proleptic Gregorian calendar)
FormatDate(t) ==
  LET z == (t \div 86400) + 719468
      era == z \div 146097
      doe == z - era * 146097
      yoe == (doe - doe \div 1460 + doe \div 36524 - doe \div 146096) \div 365
      doy == doe - (365 * yoe + yoe \div 4 - yoe \div 100)
      mp == (5 * doy + 2) \div 153
      d == doy - (153 * mp + 2) \div 5 + 1
      m == IF mp < 10 THEN mp + 3 ELSE mp - 9
      y == yoe + era * 400 + (IF m <= 2 THEN 1 ELSE 0)
  IN Pad2(m) \o "/" \o Pad2(d) \o "/" \o ToString(y)

\* line 218, for a unix time that is not negative
SecondsUntilNextMinuteZeroAtBoundary(t) == (60 - (t % 60)) % 60

SecondsUntilNextMinute(t) == 60 - (t % 60)

\* the host starts a frame: pending repaint requests are served by it; line 151
UpdBegin ==
  /\ updPc = "idle"
  /\ rxAlive
  /\ updPc' = "ws"
  /\ repaintPending' = FALSE
  /\ repaint_needed' = FALSE
  /\ wsBacklog' = Len(wsChan)
  /\ batBacklog' = Len(batChan)
  /\ frameFor' = redrawFor
  /\ redrawFor' = NoSnapshot
  /\ UNCHANGED <<rxAlive,
                 wsChan, batChan, workspaces, battery_level, time, date,
                 wakeAfter, othersThanUpd>>

\* lines 153-155: try_recv returns a value
UpdRecvWsKeepFirst ==
  /\ updPc = "ws"
  /\ wsChan # <<>>
  /\ workspaces' = IF repaint_needed THEN workspaces ELSE Head(wsChan)
  /\ wsChan' = Tail(wsChan)
  /\ repaint_needed' = TRUE
  /\ wsBacklog' = IF wsBacklog > 0 THEN wsBacklog - 1 ELSE 0
  /\ UNCHANGED <<rxAlive, frameFor, redrawFor,
                 updPc, batChan, batBacklog, battery_level, time, date,
                 wakeAfter, repaintPending, othersThanUpd>>

UpdRecvWs ==
  /\ updPc = "ws"
  /\ wsChan # <<>>
  /\ workspaces' = Head(wsChan)
  /\ wsChan' = Tail(wsChan)
  /\ repaint_needed' = TRUE
  /\ wsBacklog' = IF wsBacklog > 0 THEN wsBacklog - 1 ELSE 0
  /\ UNCHANGED <<rxAlive, frameFor, redrawFor,
                 updPc, batChan, batBacklog, battery_level, time, date,
                 wakeAfter, repaintPending, othersThanUpd>>

\* line 153: try_recv returns Err, the loop ends
UpdWsEmpty ==
  /\ updPc = "ws"
  /\ wsChan = <<>>
  /\ updPc' = "bat"
  /\ UNCHANGED <<rxAlive, frameFor, redrawFor,
                 wsChan, batChan, repaint_needed, wsBacklog, batBacklog,
                 workspaces, battery_level, time, date, wakeAfter,
                 repaintPending, othersThanUpd>>

\* lines 158-160: try_recv returns a value
UpdRecvBat ==
  /\ updPc = "bat"
  /\ batChan # <<>>
  /\ battery_level' = Head(batChan)
  /\ batChan' = Tail(batChan)
  /\ repaint_needed' = TRUE
  /\ batBacklog' = IF batBacklog > 0 THEN batBacklog - 1 ELSE 0
  /\ UNCHANGED <<rxAlive, frameFor, redrawFor,
                 updPc, wsChan, wsBacklog, workspaces, time, date, wakeAfter,
                 repaintPending, othersThanUpd>>

\* line 158: try_recv returns Err, the loop ends
UpdBatEmpty ==
  /\ updPc = "bat"
  /\ batChan = <<>>
  /\ updPc' = "clock"
  /\ UNCHANGED <<rxAlive, frameFor, redrawFor,
                 wsChan, batChan, repaint_needed, wsBacklog, batBacklog,
                 workspaces, battery_level, time, date, wakeAfter,
                 repaintPending, othersThanUpd>>

\* lines 163-220 without line 170
UpdFinishIgnoresClock(now) ==
  LET new_time == FormatTime(now)
      new_date == FormatDate(now)
      changed == new_time # time \/ new_date # date
  IN /\ updPc = "clock"
     /\ time' = IF changed THEN new_time ELSE time
     /\ date' = IF changed THEN new_date ELSE date
     /\ repaint_needed' = repaint_needed
     /\ repaintPending' = (repaintPending \/ repaint_needed')
     /\ wakeAfter' = SecondsUntilNextMinute(now)
     /\ updPc' = "idle"
        /\ frameFor' = NoSnapshot
     /\ UNCHANGED <<rxAlive, redrawFor,
                    wsChan, batChan, wsBacklog, batBacklog, workspaces,
                    battery_level, othersThanUpd>>

\* lines 163-220 without the test of line 215
UpdFinishAlwaysRepaints(now) ==
  LET new_time == FormatTime(now)
      new_date == FormatDate(now)
      changed == new_time # time \/ new_date # date
  IN /\ updPc = "clock"
     /\ time' = IF changed THEN new_time ELSE time
     /\ date' = IF changed THEN new_date ELSE date
     /\ repaint_needed' = (repaint_needed \/ changed)
     /\ repaintPending' = TRUE
     /\ wakeAfter' = SecondsUntilNextMinute(now)
     /\ updPc' = "idle"
        /\ frameFor' = NoSnapshot
     /\ UNCHANGED <<rxAlive, redrawFor,
                    wsChan, batChan, wsBacklog, batBacklog, workspaces,
                    battery_level, othersThanUpd>>

\* lines 163-220 with chrono::Local::now() = now
UpdFinish(now) ==
  LET new_time == FormatTime(now)
      new_date == FormatDate(now)
      changed == new_time # time \/ new_date # date
  IN /\ updPc = "clock"
     /\ time' = IF changed THEN new_time ELSE time
     /\ date' = IF changed THEN new_date ELSE date
     /\ repaint_needed' = (repaint_needed \/ changed)
     /\ repaintPending' = (repaintPending \/ repaint_needed')
     /\ wakeAfter' = SecondsUntilNextMinute(now)
     /\ updPc' = "idle"
        /\ frameFor' = NoSnapshot
     /\ UNCHANGED <<rxAlive, redrawFor,
                    wsChan, batChan, wsBacklog, batBacklog, workspaces,
                    battery_level, othersThanUpd>>

\* eframe::run_native returns: MyTaskbar is dropped, and ws_rx and bat_rx
\* with it, together with the values still queued
HostTeardown ==
  /\ updPc = "idle"
  /\ rxAlive
  /\ rxAlive' = FALSE
  /\ wsChan' = <<>>
  /\ batChan' = <<>>
  /\ UNCHANGED <<updPc, repaint_needed, wsBacklog, batBacklog, workspaces,
                 battery_level, time, date, wakeAfter, repaintPending,
                 frameFor, redrawFor, othersThanUpd>>

----------------------------------------------------------------------------
(* The program and its parts *)

FrameTimes == {125, 180}
MaxUnixTime == 200

WsClientOn(msgs) ==
  \/ WsConnectOk
  \/ WsConnectErr
  \/ WsSleep
  \/ WsSub1
  \/ WsSub2
  \/ WsQuery0
  \/ \E msg \in msgs : WsReadOk(msg)
  \/ WsReadErr
  \/ WsPublish
  \/ WsSignal
  \/ WsRequery
  \/ WsSendErr

WsClient == WsClientOn(Messages)

Ticker == TkSwap \/ TkRepaint \/ TkSleep

BatterySampler ==
  \/ BatInit
  \/ \E hp \in BatteryHalfPercents : BatPublish(hp)
  \/ BatSkip
  \/ BatWake
  \/ BatSleep

\* the frame steps that need no queued value
FrameAt(times) ==
  \/ UpdBegin
  \/ UpdWsEmpty
  \/ UpdBatEmpty
  \/ \E now \in times : UpdFinish(now)

AggregatorAt(times) == FrameAt(times) \/ UpdRecvWs \/ UpdRecvBat

Aggregator == AggregatorAt(FrameTimes)

\* all four threads
Next == WsClient \/ Ticker \/ BatterySampler \/ Aggregator \/ HostTeardown
Spec == Init /\ [][Next]_vars

\* the workspace client against the window manager
NextClient == WsClientOn(ClientMessages)
SpecClient == Init /\ [][NextClient]_vars
\* the client thread is scheduled for as long as it has a step to take
FairClient == SpecClient /\ WF_vars(NextClient)

\* the workspace client reading one message of the wide universe
NextCodec ==
  \/ WsConnectOk
  \/ WsSub1
  \/ WsSub2
  \/ WsQuery0
  \/ \E msg \in CodecMessages : readsOnConn = 0 /\ WsReadOk(msg)
  \/ WsPublish
  \/ WsSignal
  \/ WsRequery
SpecCodec == Init /\ [][NextCodec]_vars

\* the flag between the workspace client and the ticker
NextCoalescer == WsClient \/ Ticker
SpecCoalescer == Init /\ [][NextCoalescer]_vars
FairCoalescer == SpecCoalescer /\ WF_vars(Ticker)

\* the two channels between the producers and the aggregator
NextChannels ==
  \/ WsConnectOk
  \/ WsSub1
  \/ WsSub2
  \/ WsQuery0
  \/ \E msg \in {MsgSnapshotA, MsgSnapshotB} : WsReadOk(msg)
  \/ WsReadErr
  \/ WsPublish
  \/ WsSignal
  \/ BatterySampler
  \/ Aggregator
SpecChannels == Init /\ [][NextChannels]_vars

\* frames at any time of the clock
NextClock == FrameAt(0..MaxUnixTime)
SpecClock == Init /\ [][NextClock]_vars

\* both producers and frames in two minutes of one day and at the first of
\* these times one day later
RedrawTimes == FrameTimes \cup {86525}
NextRedraw ==
  \/ WsConnectOk
  \/ WsSub1
  \/ WsSub2
  \/ WsQuery0
  \/ \E msg \in {MsgSnapshotA, MsgSnapshotB} : WsReadOk(msg)
  \/ WsPublish
  \/ WsSignal
  \/ BatterySampler
  \/ AggregatorAt(RedrawTimes)
SpecRedraw == Init /\ [][NextRedraw]_vars

\* the three background threads under every failure, the loss of the
\* receivers included
FailureMessages == {MsgSnapshotA, MsgEvent, TextFrame(NotJson)}
NextFailures ==
  \/ WsClientOn(FailureMessages)
  \/ Ticker
  \/ BatterySampler
  \/ HostTeardown
SpecFailures == Init /\ [][NextFailures]_vars

\* a snapshot on its way from the client through the channel and the flag
\* to a frame
NextPipeline ==
  \/ WsConnectOk
  \/ WsSub1
  \/ WsSub2
  \/ WsQuery0
  \/ \E msg \in {MsgSnapshotA, MsgSnapshotB} : WsReadOk(msg)
  \/ WsPublish
  \/ WsSignal
  \/ Ticker
  \/ FrameAt({125})
  \/ UpdRecvWs
SpecPipeline == Init /\ [][NextPipeline]_vars

\* the battery sampler and the host
NextBattery == BatterySampler \/ FrameAt(FrameTimes) \/ UpdRecvBat
SpecBattery == Init /\ [][NextBattery]_vars

----------------------------------------------------------------------------
(* Properties of the workspace client *)

QueriesSent == Cardinality({i \in 1..Len(sent) : sent[i] = QueryWorkspaces})

\* C1: on one connection, between two reads the number of "query workspaces"
\* commands sent is one (the initial query) plus the number of event
\* envelopes read; the query for an event is the client's next step after
\* the read of that event, and only events are followed by a query.
C1_OneQueryPerEvent ==
  /\ wsPc \in {"read", "publish", "signal"} => QueriesSent = 1 + eventsOnConn
  /\ wsPc = "requery" => IsEventEnvelope(wsMsg) /\ QueriesSent = eventsOnConn
  /\ (WsStreaming /\ IsEventEnvelope(wsMsg) /\ QueriesSent = eventsOnConn)
       => wsPc = "requery"

C1_Witness == wsPc = "read" /\ eventsOnConn >= 3 /\ QueriesSent = 4

\* C2 as stated: whenever the client leaves Streaming for Disconnected, it
\* sleeps before it connects again.
C2_SleepBeforeReconnect ==
  [][(WsStreaming /\ WsDisconnected') => wsPc' = "sleep"]_vars

\* C2 amended: the client leaves Streaming for Disconnected only by a read
\* failure and is then about to connect, with no sleep; the sleep is entered
\* only from a failed connect attempt and is followed by a connect attempt.
C2_ImmediateReconnect ==
  [][/\ (WsStreaming /\ WsDisconnected') => (wsPc = "read" /\ wsPc' = "connect")
     /\ (wsPc # "sleep" /\ wsPc' = "sleep") => wsPc = "connect"
     /\ (wsPc = "sleep" /\ wsPc' # "sleep") => wsPc' = "connect"]_vars

C2_Witness == wsPc = "connect" /\ Len(sent) >= 3 /\ readsOnConn >= 1

Handshake == <<SubWorkspaceActivated, SubFocusChanged, QueryWorkspaces>>

\* C3: the commands sent on a connection start with the two subscribe
\* commands and the query, in this order; nothing is read before the three
\* are sent, and no query precedes the two subscribe commands.
C3_SubscribeBeforeQuery ==
  /\ \A i \in 1..Len(sent) :
       sent[i] = (IF i <= 3 THEN Handshake[i] ELSE QueryWorkspaces)
  /\ wsPc = "sub1" => sent = <<>>
  /\ wsPc = "sub2" => Len(sent) = 1
  /\ wsPc = "query0" => Len(sent) = 2
  /\ WsSubscribed => readsOnConn = 0
  /\ WsStreaming => Len(sent) >= 3

\* a second connection has completed its subscribe sequence
C3_Witness ==
  wsPc = "read" /\ readsOnConn = 0 /\ wsChan # <<>> /\ sent = Handshake

----------------------------------------------------------------------------
(* Properties of the codec *)

CarriesAckMarker(msg) ==
  /\ msg.frame = "text"
  /\ ParseEnvelope(msg.json).ok
  /\ ParseEnvelope(msg.json).v.data.t = "obj"
  /\ "subscriptionId" \in DOMAIN ParseEnvelope(msg.json).v.data.o

\* C4: after an envelope with a subscriptionId member in its data is read,
\* whatever its type and its other members, the client is not about to
\* publish or to raise the flag, nothing is on the channel and the flag is
\* not raised.
C4_AckNeverPublished ==
  CarriesAckMarker(wsMsg) =>
    /\ wsPc \notin {"publish", "signal"}
    /\ wsChan = <<>>
    /\ ~repaint_signal

\* an acknowledgement that is a response and carries a decodable list
C4_Witness ==
  /\ CarriesAckMarker(wsMsg)
  /\ ParseEnvelope(wsMsg.json).v.message_type = "query_response"
  /\ DecodeWorkspacesData(ParseEnvelope(wsMsg.json).v.data).ok
  /\ readsOnConn = 1
  /\ wsPc = "read"

SpellingsOf(e, a, b) == {k \in {a, b} : k \in DOMAIN e.o}

WellFormedWorkspace(e) ==
  /\ e.t = "obj"
  /\ "name" \in DOMAIN e.o
  /\ e.o["name"].t = "str"
  /\ Cardinality(SpellingsOf(e, "hasFocus", "focused")) <= 1
  /\ Cardinality(SpellingsOf(e, "isDisplayed", "visible")) <= 1
  /\ \A k \in SpellingsOf(e, "hasFocus", "focused")
            \cup SpellingsOf(e, "isDisplayed", "visible") : e.o[k].t = "bool"

WellFormedResponse(msg) ==
  /\ msg.frame = "text"
  /\ msg.json.t = "obj"
  /\ ParseEnvelope(msg.json).ok
  /\ ParseEnvelope(msg.json).v.message_type \in {"query_response", "client_response"}
  /\ LET data == ParseEnvelope(msg.json).v.data
     IN /\ data.t = "obj"
        /\ "subscriptionId" \notin DOMAIN data.o
        /\ "workspaces" \in DOMAIN data.o
        /\ data.o["workspaces"].t = "arr"
        /\ \A i \in 1..Len(data.o["workspaces"].a) :
             WellFormedWorkspace(data.o["workspaces"].a[i])

FlagOf(e, a, b) ==
  IF SpellingsOf(e, a, b) = {} THEN FALSE
  ELSE e.o[CHOOSE k \in SpellingsOf(e, a, b) : TRUE].b

ExpectedSnapshot(msg) ==
  LET list == msg.json.o["data"].o["workspaces"].a
  IN [i \in 1..Len(list) |->
        [name |-> list[i].o["name"].s,
         focused |-> FlagOf(list[i], "hasFocus", "focused"),
         visible |-> FlagOf(list[i], "isDisplayed", "visible")]]

\* C8: after a query_response or client_response with a well-formed
\* workspace payload and no subscriptionId is read, the client publishes, and
\* the snapshot on the channel has the elements of the input list in order,
\* each with its name and with focused and visible read from either spelling,
\* FALSE when absent.
C8_SnapshotMatchesPayload ==
  WellFormedResponse(wsMsg) =>
    /\ wsPc \in {"publish", "signal", "read"}
    /\ wsPc \in {"signal", "read"} => wsChan = <<ExpectedSnapshot(wsMsg)>>
    /\ wsPc = "read" => repaint_signal

\* two workspaces, one with an alias spelling and one with an absent flag
C8_Witness ==
  /\ WellFormedResponse(wsMsg)
  /\ wsPc = "read"
  /\ Len(wsChan) = 1
  /\ Len(wsChan[1]) = 2
  /\ wsChan[1][1].name # wsChan[1][2].name
  /\ wsChan[1][1].visible
  /\ ~wsChan[1][2].visible
  /\ wsChan[1][2].focused

----------------------------------------------------------------------------
(* Properties of the repaint coalescer *)

\* C5: the ticker's poll clears the flag and keeps what it saw in one step;
\* having seen TRUE it issues one redraw request and then sleeps, having
\* seen FALSE it sleeps at once; the flag is cleared by no other step, so a
\* set is either seen by the poll or still there after it; a redraw request
\* is issued only for a flag that a poll saw and cleared.
C5_AtomicTestAndClear ==
  [][/\ (tkPc = "poll" /\ tkPc' # "poll") =>
          /\ ~repaint_signal'
          /\ tkObserved' = repaint_signal
          /\ tkPc' = (IF repaint_signal THEN "repaint" ELSE "sleep")
          /\ repaintPending' = repaintPending
     /\ (repaint_signal /\ ~repaint_signal') =>
          (tkPc = "poll" /\ tkPc' = "repaint")
     /\ (tkPc # "repaint" /\ tkPc' = "repaint") =>
          (repaint_signal /\ ~repaint_signal')
     /\ (tkPc = "repaint" /\ tkPc' # "repaint") =>
          (tkObserved /\ repaintPending' /\ tkPc' = "sleep")
     /\ (~repaintPending /\ repaintPending') => tkPc = "repaint"
     /\ (tkPc = "sleep" /\ tkPc' # "sleep") =>
          (tkPc' = "poll" /\ repaintPending' = repaintPending)]_vars

\* the flag is set again between the swap and the redraw request
C5_Witness == tkPc = "repaint" /\ tkObserved /\ repaint_signal

\* C6: with a fair ticker, a raised flag leads to the flag being cleared and
\* to the ticker having issued a redraw request in the cycle that saw it.
C6_FlagLeadsToRedraw ==
  /\ repaint_signal ~> ~repaint_signal
  /\ repaint_signal ~> (tkPc = "sleep" /\ tkObserved /\ repaintPending)

C6_Witness ==
  tkPc = "sleep" /\ tkObserved /\ repaintPending /\ wsLastPub # <<>>

----------------------------------------------------------------------------
(* Properties of the aggregator *)

\* C7: whenever a channel is empty the aggregator holds the last value
\* published on it (the initial value when there is none), whole; when the
\* drain loop of a channel has ended, every value queued on it at frame begin
\* has been received; a drain loop that finds the channel empty keeps the
\* value.
C7_DrainKeepsLast ==
  /\ [](/\ wsChan = <<>> => workspaces = wsLastPub
        /\ batChan = <<>> => battery_level = batLastPub
        /\ workspaces \in {<<>>, SnapshotA, SnapshotB}
        /\ updPc \in {"bat", "clock"} => wsBacklog = 0
        /\ updPc = "clock" => batBacklog = 0)
  /\ [][/\ (updPc = "ws" /\ updPc' = "bat") => workspaces' = workspaces
        /\ (updPc = "bat" /\ updPc' = "clock") => battery_level' = battery_level
        /\ (updPc = "clock" /\ updPc' = "idle") =>
             (workspaces' = workspaces /\ battery_level' = battery_level)]_vars

\* a frame has received the second snapshot and a battery reading
C7_Witness ==
  /\ updPc = "clock"
  /\ repaint_needed
  /\ workspaces = SnapshotB
  /\ wsLastPub = SnapshotB
  /\ battery_level = "88%"

\* C9 as stated: a frame that ends at unix time now asks for a wake-up after
\* 60 - (now mod 60) seconds, a value in 1..60: 35 at 125 and 60 at 180.
C9_WakeAsStated ==
  [][\A now \in 0..MaxUnixTime :
       UpdFinish(now) =>
         /\ wakeAfter' \in 1..60
         /\ (now + wakeAfter') % 60 = 0
         /\ now = 125 => wakeAfter' = 35
         /\ now = 180 => wakeAfter' = 60]_vars

\* C9 amended: a frame that ends at unix time now asks for a wake-up after
\* 60 - (now mod 60) seconds whatever else the frame did, a value in 1..60
\* that leads to the next minute boundary: 55 at 125 and 60 at 180.
C9_WakeAtNextMinute ==
  [][\A now \in 0..MaxUnixTime :
       UpdFinish(now) =>
         /\ wakeAfter' \in 1..60
         /\ (now + wakeAfter') % 60 = 0
         /\ now = 125 => wakeAfter' = 55
         /\ now = 180 => wakeAfter' = 60]_vars

\* a frame has ended five seconds into a minute
C9_Witness == updPc = "idle" /\ time = "00:02" /\ wakeAfter = 55

----------------------------------------------------------------------------
(* Properties of the battery sampler *)

C11_SkipWithoutBattery ==
  [][/\ (batPc = "poll" /\ batPc' # "poll" /\ batChan' = batChan) =>
          /\ batPc' = "sleep"
          /\ repaintPending' = repaintPending
          /\ repaint_signal' = repaint_signal
          /\ battery_level' = battery_level
          /\ batLastPub' = batLastPub
     /\ (batPc = "poll" /\ batPc' # "poll" /\ manager = "none") =>
          batChan' = batChan
     /\ (batPc = "sleep" /\ batPc' # "sleep") => batPc' = "poll"]_vars

\* with a manager, cycles have been skipped and nothing was ever published
C11_Witness ==
  /\ batPc = "sleep"
  /\ manager = "some"
  /\ batLastPub = "100%"
  /\ battery_level = "100%"
  /\ time # ""
  /\ updPc = "idle"
  /\ ~repaintPending

\* C20: the manager is obtained once, before the loop, and never again; when
\* it is missing no cycle publishes or asks for a redraw, whatever the
\* battery source would answer, and the aggregator's battery value stays
\* "100%".
C20_ManagerAcquiredOnce ==
  /\ [](manager = "none" =>
          /\ batChan = <<>>
          /\ batLastPub = "100%"
          /\ battery_level = "100%"
          /\ batPc \in {"poll", "sleep"})
  /\ [][/\ manager # "unset" => manager' = manager
        /\ (manager = "none" /\ batPc' # batPc) =>
             repaintPending' = repaintPending]_vars

\* a later cycle without a manager, after frames have run
C20_Witness ==
  /\ manager = "none"
  /\ batPc = "poll"
  /\ wakeAfter > 0
  /\ updPc = "idle"
  /\ battery_level = "100%"

\* the four kinds of message the read loop drops
NonTextFrame(msg) == msg.frame # "text"
NotAnEnvelope(msg) == msg.frame = "text" /\ ~ParseEnvelope(msg.json).ok
UnrecognisedType(msg) ==
  /\ msg.frame = "text"
  /\ ParseEnvelope(msg.json).ok
  /\ ParseEnvelope(msg.json).v.message_type \notin
       {"query_response", "client_response",
        "event", "subscribed_event", "event_subscription"}
UndecodableResponse(msg) ==
  /\ msg.frame = "text"
  /\ ParseEnvelope(msg.json).ok
  /\ ParseEnvelope(msg.json).v.message_type \in
       {"query_response", "client_response"}
  /\ ~DecodeWorkspacesData(ParseEnvelope(msg.json).v.data).ok
IgnoredMessage(msg) ==
  \/ NonTextFrame(msg)
  \/ NotAnEnvelope(msg)
  \/ UnrecognisedType(msg)
  \/ UndecodableResponse(msg)

\* C13: the read of a message that is a non-text frame, is no envelope, has
\* an unrecognised type, or is a response whose data does not decode, is
\* followed by the next read on the same connection; it sends no command,
\* publishes no snapshot and does not raise the flag.
C13_IgnoredMessageNoEffect ==
  [][(wsPc = "read" /\ readsOnConn' = readsOnConn + 1 /\ IgnoredMessage(wsMsg')) =>
       /\ wsPc' = "read"
       /\ sent' = sent
       /\ wsChan' = wsChan
       /\ wsLastPub' = wsLastPub
       /\ repaint_signal' = repaint_signal]_vars

\* a response whose data is not a workspace payload has been read and dropped
C13_Witness ==
  /\ UndecodableResponse(wsMsg)
  /\ ~CarriesAckMarker(wsMsg)
  /\ readsOnConn = 1
  /\ wsPc = "read"
  /\ sent = Handshake
  /\ wsChan = <<>>
  /\ ~repaint_signal

(* Properties of the aggregator's redraw requests *)

\* C15: within a frame, a step that changes workspaces or the battery value
\* records that a redraw is needed, the record stands until the frame ends,
\* and the frame's last step asks for an immediate redraw when the record is
\* set or when the time or the date string changes in it; the four values
\* change in frames only.
C15_ChangeRequestsRedraw ==
  [][/\ (workspaces' # workspaces \/ battery_level' # battery_level) =>
          /\ updPc \in {"ws", "bat"}
          /\ repaint_needed'
     /\ (updPc \in {"ws", "bat", "clock"} /\ repaint_needed) => repaint_needed'
     /\ (time' # time \/ date' # date) =>
          /\ updPc = "clock"
          /\ repaint_needed'
     /\ (updPc = "clock" /\ updPc' = "idle" /\ repaint_needed') => repaintPending']_vars

\* a frame on the second day has ended without any value received: the
\* date string changed in it, and a redraw is requested
C15_Witness ==
  /\ updPc = "idle"
  /\ time = "00:02"
  /\ date = "01/02/1970"
  /\ workspaces = <<>>
  /\ battery_level = "100%"
  /\ repaint_needed
  /\ repaintPending

\* C18: a frame's record that a redraw is needed is set only by a value
\* received from a channel or by a change of the time or date string, and a
\* frame that ends with the record unset leaves the pending redraw requests
\* as they are.
C18_QuietFrameNoRedraw ==
  [][/\ (~repaint_needed /\ repaint_needed') =>
          \/ wsChan' # wsChan
          \/ batChan' # batChan
          \/ time' # time
          \/ date' # date
     /\ (updPc = "clock" /\ updPc' = "idle" /\ ~repaint_needed
           /\ time' = time /\ date' = date) =>
          /\ ~repaint_needed'
          /\ repaintPending' = repaintPending]_vars

\* after the frames that took the published values, a frame in the same
\* minute with both channels empty has ended and no redraw is requested
C18_Witness ==
  /\ updPc = "idle"
  /\ workspaces = SnapshotB
  /\ battery_level = "88%"
  /\ time = "00:03"
  /\ wsChan = <<>>
  /\ batChan = <<>>
  /\ ~repaint_needed
  /\ ~repaintPending

(* Properties of failures *)

\* C12: a connect attempt that fails leads to the sleep and the sleep to
\* the next attempt, as often as attempts fail: at every attempt both
\* outcomes are possible, whatever the number of failures before; the steps
\* taken while disconnected send no command, publish nothing and leave the
\* flag alone; and a successful attempt leads to the read loop.
C12_RetryUntilConnected ==
  /\ [][/\ (wsPc = "connect" /\ wsPc' \notin {"connect", "sub1"}) =>
             wsPc' = "sleep"
        /\ (wsPc = "sleep" /\ wsPc' # "sleep") => wsPc' = "connect"
        /\ WsDisconnected =>
             /\ sent' \in {sent, <<>>}
             /\ wsChan' = wsChan
             /\ wsLastPub' = wsLastPub
             /\ repaint_signal' = repaint_signal]_vars
  /\ [](wsPc = "connect" => ENABLED WsConnectOk /\ ENABLED WsConnectErr)
  /\ (wsPc = "sub1" ~> WsStreaming)

\* the read loop is reached after two failed attempts and a successful one
C12_Witness ==
  /\ wsPc = "read"
  /\ retries = 2
  /\ readsOnConn = 0
  /\ Len(sent) = 3
  /\ wsChan = <<>>

\* C14: every send, failed or not, is followed by the step after it on the
\* same connection (the next subscribe, the query, the read), with the
\* reads counted so far, the channel and the flag as they were; after a
\* failed send the client is on its way to the next read; and the client
\* leaves a connection only from the read.
C14_SendFailureNotFatal ==
  /\ [][/\ (wsPc # "connect" /\ sent' # sent) =>
             /\ wsPc = "sub1" => wsPc' = "sub2"
             /\ wsPc = "sub2" => wsPc' = "query0"
             /\ wsPc \in {"query0", "requery"} => wsPc' = "read"
             /\ wsPc \in {"sub1", "sub2", "query0", "requery"}
             /\ readsOnConn' = readsOnConn
             /\ wsChan' = wsChan
             /\ repaint_signal' = repaint_signal
        /\ (~WsDisconnected /\ WsDisconnected') =>
             /\ wsPc = "read"
             /\ sent' = sent]_vars
  /\ [](sendFailed => wsPc \in {"sub2", "query0", "read"})

\* the query sent for an event failed, and the client is at the next read
C14_Witness ==
  /\ sendFailed
  /\ wsPc = "read"
  /\ readsOnConn = 1
  /\ eventsOnConn = 1
  /\ sent = Handshake \o <<QueryWorkspaces>>

\* C16: whatever fails (connect, read, socket send, decoding, the battery
\* source, a channel send after the receivers are gone), each of the three
\* background threads is at a position of its loop and has a step to take;
\* a channel send that fails is followed by the producer's next step, the
\* store into the flag for the client and request_repaint for the sampler.
C16_NoFailureEndsAThread ==
  /\ [](/\ wsPc \in {"connect", "sleep", "sub1", "sub2", "query0", "read",
                     "publish", "signal", "requery"}
        /\ tkPc \in {"poll", "repaint", "sleep"}
        /\ batPc \in {"init", "poll", "wake", "sleep"}
        /\ ENABLED WsClientOn(FailureMessages)
        /\ ENABLED Ticker
        /\ ENABLED BatterySampler)
  /\ [][/\ (wsPc = "publish" /\ wsPc' # wsPc /\ "ws" \in txFailed') =>
             /\ wsPc' = "signal"
             /\ wsChan' = wsChan
        /\ (batPc = "poll" /\ batLastPub' # batLastPub /\ "bat" \in txFailed') =>
             /\ batPc' = "wake"
             /\ batChan' = batChan]_vars

\* the receivers are gone, both producers have had a channel send fail,
\* the client had connects and the query for an event fail, and all three
\* threads are in their loops
C16_Witness ==
  /\ ~rxAlive
  /\ txFailed = {"ws", "bat"}
  /\ wsPc = "read"
  /\ retries = 2
  /\ sendFailed
  /\ readsOnConn = 2
  /\ IsEventEnvelope(wsMsg)
  /\ batPc = "sleep"
  /\ tkPc = "sleep"
  /\ redraws >= 1

(* Properties of the coalescing of redraw requests *)

\* C17: the ticker has requested at most as many redraws as it has polled
\* and at most as many as the flag was raised; the flag is set exactly when
\* it was raised since the last poll, however often; a poll is followed by
\* one redraw request when the flag was raised since the poll before, by
\* none otherwise, and redraws are requested nowhere else.
C17_CoalescingBound ==
  /\ [](/\ redraws <= polls
        /\ redraws <= raises
        /\ repaint_signal <=> raisesSincePoll >= 1)
  /\ [][/\ (tkPc = "poll" /\ tkPc' # "poll") =>
             /\ raisesSincePoll >= 1 => tkPc' = "repaint"
             /\ raisesSincePoll = 0 => tkPc' = "sleep"
             /\ redraws' = redraws
        /\ (tkPc = "repaint" /\ tkPc' # "repaint") =>
             /\ tkPc' = "sleep"
             /\ redraws' = CountUpTo(redraws, MaxCount)
        /\ redraws' # redraws => tkPc = "repaint"]_vars

\* the flag was raised twice before the first poll, and after the poll one
\* redraw has been requested
C17_Witness ==
  /\ raises = 2
  /\ polls = 1
  /\ redraws = 1
  /\ ~repaint_signal
  /\ tkPc = "sleep"

(* Properties of the path of a snapshot *)

\* the snapshot a frame would show after its drain: the last one queued,
\* or the one shown when nothing is queued
LatestVisible ==
  IF wsChan # <<>> THEN wsChan[Len(wsChan)] ELSE workspaces

\* C19 as stated: the client raises the flag only after the snapshot is
\* queued, and the frame run for a redraw the ticker requested ends with
\* workspaces equal to the snapshot that was the latest published when the
\* ticker observed the flag.
C19_FrameShowsObservedSnapshot ==
  /\ wsPc = "signal" => LatestVisible = DecodedWorkspaces(wsMsg)
  /\ (updPc \in {"bat", "clock"} /\ frameFor.some) => workspaces = frameFor.v

\* C19: the flag is raised only by the client's step after its publish, and
\* at that step the snapshot just published is queued or shown; the latest
\* snapshot published is always the last one queued or, with nothing
\* queued, the one shown; so every frame, the one run for a redraw of the
\* ticker included, ends its drain with workspaces equal to the latest
\* snapshot published until then, which is the snapshot the ticker observed
\* or one published after it.
C19_PublishBeforeSignal ==
  /\ [](/\ LatestVisible = wsLastPub
        /\ wsPc = "signal" => wsLastPub = DecodedWorkspaces(wsMsg)
        /\ tkSeen.some => wsLastPub # <<>>)
  /\ [][/\ (repaint_signal' /\ ~repaint_signal) => wsPc = "signal"
        /\ (updPc = "ws" /\ updPc' = "bat") =>
             /\ workspaces' = wsLastPub'
             /\ wsChan' = <<>>
        /\ (updPc = "idle" /\ updPc' = "ws" /\ redrawFor.some) =>
             /\ frameFor' = redrawFor
             /\ redrawFor.v \in {SnapshotA, SnapshotB}]_vars

\* the ticker observed the flag when SnapshotA was the latest, SnapshotB
\* was published before the frame for the redraw drained the channel, and
\* the frame shows SnapshotB
C19_Witness ==
  /\ updPc = "bat"
  /\ frameFor = SomeSnapshot(SnapshotA)
  /\ workspaces = SnapshotB
  /\ wsLastPub = SnapshotB
  /\ wsChan = <<>>

====
